---- MODULE Spec2Model ----
(***************************************************************************)
(* Model of the /analyze handler of src/app.py (function analyze): the    *)
(* retry loop around the remote emotion classifier, the normalisation of  *)
(* its answer and the optional write of the result onto an event row.     *)
(*                                                                         *)
(* Scores are integers in units of 1e-5 (0.7 is 70000).  Strings that the  *)
(* handler inspects character by character (the notes) are sequences of    *)
(* characters; strings it only passes on are TLA+ strings.                 *)
(***************************************************************************)
EXTENDS Integers, Sequences, FiniteSets, TLC

(* ------------------------------ bounds -------------------------------- *)
\* longest notes text of a request, in characters
MaxNotesLen == 2
\* longest sequence of entries in a body of the remote endpoint
MaxSeqLen == 2

(* ------------------------- program constants -------------------------- *)
\* max_attempts = 6
max_attempts == 6
\* notes = notes[:500]
NotesLimit == 500
\* time.sleep(min(1.0 * attempt, 5)): factor and ceiling, in seconds
BackoffBase == 1
BackoffCap == 5
\* round(top["score"], 4): 4 decimals are 10 units of 1e-5
RoundUnit == 10

Calls == {1, 2}

Min(a, b) == IF a <= b THEN a ELSE b

(* ----------------------------- JSON values ---------------------------- *)
\* One record shape for every JSON value the remote endpoint answers with:
\*   t     "null" | "num" | "obj" | "list"
\*   n     the number, when t = "num"
\*   lk,lv the "label" member of an object: absent, null or a string lv
\*   sk    the "score" member of an object: absent, null, a number sn or a
\*         string ss
\*   items the elements, when t = "list"
JNull ==
    [t |-> "null", n |-> 0, lk |-> "absent", lv |-> "", sk |-> "absent",
     sn |-> 0, ss |-> "", items |-> <<>>]
JNum(n) == [JNull EXCEPT !.t = "num", !.n = n]
JObj(lk, lv, sk, sn, ss) ==
    [JNull EXCEPT !.t = "obj", !.lk = lk, !.lv = lv, !.sk = sk, !.sn = sn, !.ss = ss]
JList(items) == [JNull EXCEPT !.t = "list", !.items = items]
\* {}
JEmptyObj == JObj("absent", "", "absent", 0, "")

\* the objects a body is built from
ObjEntries ==
    { JObj("str", "joy", "num", 70000, ""),
      JObj("str", "anger", "num", 70000, ""),
      JObj("str", "joy", "num", 20000, ""),
      JObj("str", "anger", "absent", 0, ""),
      JObj("str", "fear", "str", 0, "0.81234"),
      JObj("str", "joy", "str", 0, "abc"),
      JObj("str", "anger", "null", 0, ""),
      JObj("null", "", "num", 20000, ""),
      JObj("absent", "", "num", 70000, "") }
\* entries of a sequence: the objects and a bare number
Entries == ObjEntries \cup {JNum(1)}

SeqsUpTo(S, n) == UNION { [1..k -> S] : k \in 0..n }

FlatSeqs == SeqsUpTo(Entries, MaxSeqLen)

\* The bodies the remote endpoint may answer with: null, {}, a number, a flat
\* sequence, a sequence nested in a one-element sequence, and sequences with
\* a sequence before or after another entry.
Bodies ==
    {JNull, JEmptyObj, JNum(1)}
    \cup { JList(s) : s \in FlatSeqs }
    \cup { JList(<<JList(s)>>) : s \in FlatSeqs }
    \cup { JList(<<JList(s), e>>) : s \in SeqsUpTo(Entries, 1), e \in Entries }
    \cup { JList(<<e, JList(<<>>)>>) : e \in Entries }

(* ------------------------- values of a request ------------------------ *)
Chars == {" ", "a"}
IsSpace(ch) == ch = " "

\* data.get("notes"): absent, null, a string s or a number n
NoteAbsent == [k |-> "absent", s |-> <<>>, n |-> 0]
NoteNull == [k |-> "null", s |-> <<>>, n |-> 0]
NoteStr(s) == [k |-> "str", s |-> s, n |-> 0]
NoteNum(n) == [k |-> "num", s |-> <<>>, n |-> n]
NotesInputs ==
    {NoteAbsent, NoteNull, NoteNum(0), NoteNum(5)}
    \cup { NoteStr(s) : s \in SeqsUpTo(Chars, MaxNotesLen) }

\* data.get("event_id"): absent (None), "" or the id of a row
EventNone == [k |-> "none", s |-> ""]
EventStr(s) == [k |-> "str", s |-> s]
EventIds == {"e1"}
EventInputs == {EventNone, EventStr("")} \cup { EventStr(e) : e \in EventIds }

(* --------------------------- pure functions --------------------------- *)
RECURSIVE LStrip(_)
LStrip(s) ==
    IF s = <<>> THEN <<>>
    ELSE IF IsSpace(Head(s)) THEN LStrip(Tail(s))
    ELSE s

RECURSIVE RStrip(_)
RStrip(s) ==
    IF s = <<>> THEN <<>>
    ELSE IF IsSpace(s[Len(s)]) THEN RStrip(SubSeq(s, 1, Len(s) - 1))
    ELSE s

\* the text taken as it came, without .strip()
Strip_None(s) == s

\* str.strip()
Strip(s) == RStrip(LStrip(s))

\* Python truth value of data.get("notes") / data.get("event_id")
NoteTruthy(v) ==
    \/ v.k = "str" /\ v.s # <<>>
    \/ v.k = "num" /\ v.n # 0
\* "if event_id is not None": the empty string counts as an id
EventTruthy_NotNone(e) == e.k # "none"

\* if event_id
EventTruthy(e) == e.k = "str" /\ e.s # ""

\* notes[:500]
Truncate(s) == SubSeq(s, 1, Min(Len(s), NotesLimit))

\* the guard with <= for <: one attempt too many
LoopGuard_OffByOne(a) == a <= max_attempts

\* "while True": the loop is never left for lack of budget
LoopGuard_Always(a) == TRUE

\* while attempt < max_attempts
LoopGuard(a) == a < max_attempts

\* 429 and every 5xx retried, not only 503
IsRetryStatus_Any(status) == status = 429 \/ status >= 500

\* r.status_code == 503
IsRetryStatus(status) == status = 503

\* only 5xx fails fast: a 4xx falls through to the success path
IsFailFastStatus_5xx(status) == status >= 500

\* > for >=: a 400 falls through to the success path
IsFailFastStatus_Above(status) == status > 400

\* r.status_code >= 400
IsFailFastStatus(status) == status >= 400

\* min(1.0 * attempt, 5)
BackoffDelay(a) == Min(BackoffBase * a, BackoffCap)

(* ----------------------------- normaliser ----------------------------- *)
\* the body taken as the sequence, whatever its first element
Unwrap_None(j) == j

\* HF may return [[...]] or [...]
Unwrap(j) ==
    IF j.t = "list" /\ j.items # <<>> /\ j.items[1].t = "list"
    THEN j.items[1] ELSE j

\* the check without its "or not seq"
IsUnexpected_TypeOnly(seq) == seq.t # "list"

\* not isinstance(seq, list) or not seq
IsUnexpected(seq) == seq.t # "list" \/ seq.items = <<>>

\* "label" in s : true for an object with a label member, false for a list
\* (no element of these lists is the string "label"); a number or null is
\* not a container and raises TypeError
InRaises(e) == e.t \in {"num", "null"}
HasLabel(e) == e.t = "obj" /\ e.lk # "absent"

\* float(): the strings that parse, and their values in units of 1e-5
NumericStrings == {"0.81234"}
ParseFloat(s) == CASE s = "0.81234" -> 81234 [] OTHER -> 0

\* float(s.get("score", 0.0)) raises on null and on a string that is no number
FloatRaises(e) ==
    \/ e.sk = "null"
    \/ e.sk = "str" /\ e.ss \notin NumericStrings
FloatScore(e) ==
    CASE e.sk = "absent" -> 0
      [] e.sk = "num" -> e.sn
      [] e.sk = "str" -> ParseFloat(e.ss)
      [] OTHER -> 0

\* the comprehension raises as soon as one element does
ComprehensionRaises(items) ==
    \E i \in 1..Len(items) :
        \/ InRaises(items[i])
        \/ HasLabel(items[i]) /\ FloatRaises(items[i])

\* {"label": s.get("label"), "score": float(s.get("score", 0.0))}
ScoreEntry(e) == [label |-> [k |-> e.lk, v |-> e.lv], score |-> FloatScore(e)]

RECURSIVE Labelled(_)
Labelled(items) ==
    IF items = <<>> THEN <<>>
    ELSE IF HasLabel(Head(items))
         THEN <<ScoreEntry(Head(items))>> \o Labelled(Tail(items))
         ELSE Labelled(Tail(items))

\* x goes before the elements of equal score: ties end up in reverse order
RECURSIVE InsertDesc_Unstable(_, _)
InsertDesc_Unstable(x, s) ==
    IF s = <<>> THEN <<x>>
    ELSE IF Head(s).score > x.score THEN <<Head(s)>> \o InsertDesc_Unstable(x, Tail(s))
    ELSE <<x>> \o s

\* x goes behind every element whose score is not lower: equal scores keep
\* their order (sorted() is stable, also with reverse=True)
RECURSIVE InsertDesc(_, _)
InsertDesc(x, s) ==
    IF s = <<>> THEN <<x>>
    ELSE IF Head(s).score >= x.score THEN <<Head(s)>> \o InsertDesc(x, Tail(s))
    ELSE <<x>> \o s

RECURSIVE SortedFrom(_, _)
SortedFrom(done, rest) ==
    IF rest = <<>> THEN done
    ELSE SortedFrom(InsertDesc(Head(rest), done), Tail(rest))

\* sorted(..., key=lambda x: x["score"], reverse=True)
SortedDesc(s) == SortedFrom(<<>>, s)

\* round(x, 4), x in units of 1e-5
Round4(x) ==
    LET q == x \div RoundUnit
        m == x % RoundUnit
    IN  IF 2 * m > RoundUnit THEN (q + 1) * RoundUnit
        ELSE IF 2 * m < RoundUnit THEN q * RoundUnit
        ELSE (IF q % 2 = 0 THEN q ELSE q + 1) * RoundUnit

(* ------------------------------ responses ----------------------------- *)
NoLabel == [k |-> "absent", v |-> ""]
\* the HTTP answer of the handler; status 0: not answered yet
NoResp ==
    [status |-> 0, kind |-> "none", reason |-> "", code |-> 0, err |-> "None",
     details |-> "", label |-> NoLabel, score |-> 0, scores |-> <<>>,
     attempts |-> 0, warning |-> FALSE]
\* {"error": "notes required"}, 400
RespNotesRequired == [NoResp EXCEPT !.status = 400, !.kind = "error", !.reason = "notes required"]
\* an exception nothing catches: the framework answers 500
RespException == [NoResp EXCEPT !.status = 500, !.kind = "exception"]
\* {"available": False, "reason": f"hf_http_{status}", "details": ...}, 502
RespFailFast(status, details) ==
    [NoResp EXCEPT !.status = 502, !.kind = "unavailable", !.reason = "hf_http",
                   !.code = status, !.details = details]
\* {"available": False, "reason": f"hf_unavailable: {last_err}"}, 503
RespUnavailable(err) ==
    [NoResp EXCEPT !.status = 503, !.kind = "unavailable", !.reason = "hf_unavailable",
                   !.err = err]
\* {"available": False, "reason": "unexpected_response"}, 502
RespUnexpected ==
    [NoResp EXCEPT !.status = 502, !.kind = "unavailable", !.reason = "unexpected_response"]
\* {"available": False, "reason": "no_scores"}, 502
RespNoScores ==
    [NoResp EXCEPT !.status = 502, !.kind = "unavailable", !.reason = "no_scores"]
\* the counter reported as if it started at 0
RespResult_ZeroBased(scores, a) ==
    [NoResp EXCEPT !.status = 200, !.kind = "result", !.label = scores[1].label,
                   !.score = Round4(scores[1].score), !.scores = scores,
                   !.attempts = a - 1]

\* {"label", "score", "scores", "model", "attempts"}, 200
RespResult(scores, a) ==
    [NoResp EXCEPT !.status = 200, !.kind = "result", !.label = scores[1].label,
                   !.score = Round4(scores[1].score), !.scores = scores,
                   !.attempts = a]

(* -------------------------------- state ------------------------------- *)
VARIABLES
    pc,            \* where each call of analyze() stands
    notes,         \* local notes: data.get("notes"), then the stripped, cut text
    event_id,      \* local event_id
    attempt,       \* local attempt
    out_json,      \* local out_json; JNull is None
    last_err,      \* local last_err: "None", "net", "503" or "json"
    r,             \* the answer to the last requests.post of the call
    resp,          \* the answer of the handler
    conn,          \* the storage connection of the call: "none", "open", "closed"
    pending,       \* the UPDATE of the call's open transaction, not yet committed
    events,        \* table events: ai_emotion and ai_emotion_scores of each row
    sent,          \* the HTTP requests the remote endpoint got from each call
    sleeps         \* the time.sleep() delays each call has taken, in order

vars ==
    <<pc, notes, event_id, attempt, out_json, last_err, r, resp, conn, pending,
      events, sent, sleeps>>

\* the status codes the remote endpoint answers with
Statuses == {100, 200, 302, 400, 404, 429, 500, 503}

NoAnswer == [kind |-> "none", status |-> 0, parses |-> FALSE]
NetError == [kind |-> "net", status |-> 0, parses |-> FALSE]
HttpAnswer(status, parses) == [kind |-> "http", status |-> status, parses |-> parses]

NoUpdate == [set |-> FALSE, id |-> "", label |-> NoLabel, scores |-> <<>>]
EmptyRow == [ai_emotion |-> NoLabel, ai_emotion_scores |-> <<>>]

\* the state of calls that have not read their request yet; `started` are the
\* calls that run
InitOf(started) ==
    /\ pc = [c \in Calls |-> IF c \in started THEN "start" ELSE "off"]
    /\ notes \in [Calls -> NotesInputs]
    /\ event_id \in [Calls -> EventInputs]
    /\ \A c \in Calls \ started : notes[c] = NoteAbsent /\ event_id[c] = EventNone
    /\ attempt = [c \in Calls |-> 0]
    /\ out_json = [c \in Calls |-> JNull]
    /\ last_err = [c \in Calls |-> "None"]
    /\ r = [c \in Calls |-> NoAnswer]
    /\ resp = [c \in Calls |-> NoResp]
    /\ conn = [c \in Calls |-> "none"]
    /\ pending = [c \in Calls |-> NoUpdate]
    /\ events = [e \in EventIds |-> EmptyRow]
    /\ sent = [c \in Calls |-> 0]
    /\ sleeps = [c \in Calls |-> <<>>]

Init == InitOf({1})

\* return jsonify(...), code
Return(c, answer) ==
    /\ resp' = [resp EXCEPT ![c] = answer]
    /\ pc' = [pc EXCEPT ![c] = "done"]

(* lines 375-392: read the request, check and cut the notes *)
Validate(c) ==
    /\ pc[c] = "start"
    /\ UNCHANGED <<event_id, out_json, last_err, r, conn, pending, events, sent, sleeps>>
    /\ IF NoteTruthy(notes[c]) /\ notes[c].k # "str"
       THEN \* (a number).strip(): AttributeError
            /\ Return(c, RespException)
            /\ UNCHANGED <<notes, attempt>>
       ELSE LET text == IF NoteTruthy(notes[c]) THEN notes[c].s ELSE <<>>
                stripped == Strip(text)
            IN  IF stripped = <<>>
                THEN /\ Return(c, RespNotesRequired)
                     /\ notes' = [notes EXCEPT ![c] = NoteStr(stripped)]
                     /\ UNCHANGED attempt
                ELSE /\ notes' = [notes EXCEPT ![c] = NoteStr(Truncate(stripped))]
                     /\ attempt' = [attempt EXCEPT ![c] = 0]
                     /\ pc' = [pc EXCEPT ![c] = "loop"]
                     /\ UNCHANGED resp

\* last_err kept in one module-level variable that all requests write
RetryLater_Shared(c, err) ==
    /\ last_err' = [d \in Calls |-> err]
    /\ pc' = [pc EXCEPT ![c] = "sleep"]
    /\ UNCHANGED <<out_json, resp>>

\* lines 398-402 and 405-408: remember the failure, then sleep
RetryLater(c, err) ==
    /\ last_err' = [last_err EXCEPT ![c] = err]
    /\ pc' = [pc EXCEPT ![c] = "sleep"]
    /\ UNCHANGED <<out_json, resp>>

\* a body that does not parse is retried like a 503, not a break
Handle_RetryOnParse(c, status, parses, body) ==
    IF IsRetryStatus(status) \/ (~IsFailFastStatus(status) /\ ~parses)
    THEN /\ last_err' = [last_err EXCEPT ![c] = IF IsRetryStatus(status) THEN "503" ELSE "json"]
         /\ pc' = [pc EXCEPT ![c] = "sleep"]
         /\ UNCHANGED <<out_json, resp>>
    ELSE IF IsFailFastStatus(status)
    THEN /\ resp' = [resp EXCEPT ![c] = RespFailFast(status, IF parses THEN "json" ELSE "text")]
         /\ pc' = [pc EXCEPT ![c] = "done"]
         /\ UNCHANGED <<out_json, last_err>>
    ELSE /\ pc' = [pc EXCEPT ![c] = "after_loop"]
         /\ out_json' = [out_json EXCEPT ![c] = body]
         /\ UNCHANGED <<resp, last_err>>

\* lines 404-429: what the loop body does with the answer of requests.post
Handle(c, status, parses, body) ==
    IF IsRetryStatus(status)
    THEN RetryLater(c, "503")
    ELSE IF IsFailFastStatus(status)
    THEN /\ Return(c, RespFailFast(status, IF parses THEN "json" ELSE "text"))
         /\ UNCHANGED <<out_json, last_err>>
    ELSE /\ pc' = [pc EXCEPT ![c] = "after_loop"]
         /\ UNCHANGED resp
         /\ IF parses
            THEN out_json' = [out_json EXCEPT ![c] = body] /\ UNCHANGED last_err
            ELSE last_err' = [last_err EXCEPT ![c] = "json"] /\ UNCHANGED out_json

(* lines 394-429: one iteration of the loop up to its sleep, the remote
   endpoint answering with a status of `statuses` and a body of `bodies` *)
HttpAttemptOf(c, statuses, bodies) ==
    /\ pc[c] = "loop"
    /\ LoopGuard(attempt[c])
    /\ attempt' = [attempt EXCEPT ![c] = @ + 1]
    /\ sent' = [sent EXCEPT ![c] = @ + 1]
    /\ UNCHANGED <<notes, event_id, conn, pending, events, sleeps>>
    /\ \/ /\ r' = [r EXCEPT ![c] = NetError]
          /\ RetryLater(c, "net")
       \/ \E status \in statuses, parses \in BOOLEAN :
            /\ r' = [r EXCEPT ![c] = HttpAnswer(status, parses)]
            /\ IF parses /\ ~IsRetryStatus(status) /\ ~IsFailFastStatus(status)
               THEN \E body \in bodies : Handle(c, status, parses, body)
               ELSE Handle(c, status, parses, JNull)

HttpAttempt(c) == HttpAttemptOf(c, Statuses, Bodies)

\* a remote endpoint with one status and a few bodies of each kind
CoreStatuses == {200, 404, 503}
CoreBodies ==
    LET joy == JObj("str", "joy", "num", 20000, "")
        anger == JObj("str", "anger", "num", 70000, "")
        other == JObj("absent", "", "num", 70000, "")
        broken == JObj("str", "joy", "str", 0, "abc")
    IN  {JNull, JEmptyObj, JList(<<joy, anger>>), JList(<<JList(<<joy>>)>>),
         JList(<<other>>), JList(<<broken>>)}
HttpAttemptCore(c) == HttpAttemptOf(c, CoreStatuses, CoreBodies)

(* lines 401 and 407: time.sleep(min(1.0 * attempt, 5)); continue *)
Sleep(c) ==
    /\ pc[c] = "sleep"
    /\ sleeps' = [sleeps EXCEPT ![c] = Append(@, BackoffDelay(attempt[c]))]
    /\ pc' = [pc EXCEPT ![c] = "loop"]
    /\ UNCHANGED <<notes, event_id, attempt, out_json, last_err, r, resp, conn,
                   pending, events, sent>>

(* line 394: the loop ends when the guard fails *)
LoopExit(c) ==
    /\ pc[c] = "loop"
    /\ ~LoopGuard(attempt[c])
    /\ pc' = [pc EXCEPT ![c] = "after_loop"]
    /\ UNCHANGED <<notes, event_id, attempt, out_json, last_err, r, resp, conn,
                   pending, events, sent, sleeps>>

\* the handler without its "if not scores_sorted": an empty list is a success
Normalize_EmptySuccess(c) ==
    /\ pc[c] = "after_loop"
    /\ UNCHANGED <<notes, event_id, attempt, out_json, last_err, r, conn, pending,
                   events, sent, sleeps>>
    /\ LET seq == Unwrap(out_json[c])
           scores_sorted == SortedDesc(Labelled(seq.items))
           answer == [NoResp EXCEPT !.status = 200, !.kind = "result",
                                    !.scores = scores_sorted, !.attempts = attempt[c]]
       IN  IF out_json[c] = JNull
           THEN Return(c, RespUnavailable(last_err[c]))
           ELSE IF IsUnexpected(seq)
           THEN Return(c, RespUnexpected)
           ELSE IF ComprehensionRaises(seq.items)
           THEN Return(c, RespException)
           ELSE Return(c, answer)

(* lines 431-475: the outcome of the loop, the normalisation, the result *)
Normalize(c) ==
    /\ pc[c] = "after_loop"
    /\ UNCHANGED <<notes, event_id, attempt, out_json, last_err, r, conn, pending,
                   events, sent, sleeps>>
    /\ LET seq == Unwrap(out_json[c])
           scores_sorted == SortedDesc(Labelled(seq.items))
       IN  IF out_json[c] = JNull
           THEN Return(c, RespUnavailable(last_err[c]))
           ELSE IF IsUnexpected(seq)
           THEN Return(c, RespUnexpected)
           ELSE IF ComprehensionRaises(seq.items)
           THEN Return(c, RespException)
           ELSE IF scores_sorted = <<>>
           THEN Return(c, RespNoScores)
           ELSE IF EventTruthy(event_id[c])
           THEN /\ resp' = [resp EXCEPT ![c] = RespResult(scores_sorted, attempt[c])]
                /\ pc' = [pc EXCEPT ![c] = "persist_connect"]
           ELSE Return(c, RespResult(scores_sorted, attempt[c]))

\* the storage failure answered like the other handlers do: an error, 500
PersistFailed_Error(c) ==
    /\ resp' = [resp EXCEPT ![c] = [NoResp EXCEPT !.status = 500, !.kind = "error"]]
    /\ pc' = [pc EXCEPT ![c] = "done"]

\* lines 489-492: resp["persist_warning"] = ...; return jsonify(resp), 200
PersistFailed(c) ==
    /\ resp' = [resp EXCEPT ![c].warning = TRUE]
    /\ pc' = [pc EXCEPT ![c] = "done"]

(* line 480: conn = fGetConnection(), which may raise *)
PersistConnect(c) ==
    /\ pc[c] = "persist_connect"
    /\ UNCHANGED <<notes, event_id, attempt, out_json, last_err, r, pending, events,
                   sent, sleeps>>
    /\ \/ /\ conn' = [conn EXCEPT ![c] = "open"]
          /\ pc' = [pc EXCEPT ![c] = "persist_update"]
          /\ UNCHANGED resp
       \/ /\ PersistFailed(c)
          /\ UNCHANGED conn

(* lines 481-485: cur.execute('UPDATE events SET ...'), which may raise *)
PersistUpdate(c) ==
    /\ pc[c] = "persist_update"
    /\ UNCHANGED <<notes, event_id, attempt, out_json, last_err, r, conn, events,
                   sent, sleeps>>
    /\ \/ /\ pending' = [pending EXCEPT ![c] =
                            [set |-> TRUE, id |-> event_id[c].s,
                             label |-> resp[c].scores[1].label,
                             scores |-> resp[c].scores]]
          /\ pc' = [pc EXCEPT ![c] = "persist_commit"]
          /\ UNCHANGED resp
       \/ /\ PersistFailed(c)
          /\ UNCHANGED pending

\* the rows after the UPDATE of u is committed: WHERE id = %s
Committed(rows, u) ==
    [e \in DOMAIN rows |->
        IF u.set /\ e = u.id
        THEN [ai_emotion |-> u.label, ai_emotion_scores |-> u.scores]
        ELSE rows[e]]

(* line 486: conn.commit(), which may raise *)
PersistCommit(c) ==
    /\ pc[c] = "persist_commit"
    /\ UNCHANGED <<notes, event_id, attempt, out_json, last_err, r, conn, sent, sleeps>>
    /\ \/ /\ events' = Committed(events, pending[c])
          /\ pending' = [pending EXCEPT ![c] = NoUpdate]
          /\ pc' = [pc EXCEPT ![c] = "persist_close"]
          /\ UNCHANGED resp
       \/ /\ PersistFailed(c)
          /\ UNCHANGED <<events, pending>>

(* lines 487-492: cur.close(); conn.close(); return jsonify(resp), 200 *)
PersistClose(c) ==
    /\ pc[c] = "persist_close"
    /\ conn' = [conn EXCEPT ![c] = "closed"]
    /\ pc' = [pc EXCEPT ![c] = "done"]
    /\ UNCHANGED <<notes, event_id, attempt, out_json, last_err, r, resp, pending,
                   events, sent, sleeps>>

Next ==
    \E c \in Calls :
        \/ Validate(c)
        \/ HttpAttempt(c)
        \/ Sleep(c)
        \/ LoopExit(c)
        \/ Normalize(c)
        \/ PersistConnect(c)
        \/ PersistUpdate(c)
        \/ PersistCommit(c)
        \/ PersistClose(c)

Spec == Init /\ [][Next]_vars

\* every step of the handler is taken once it can be: the handler runs on
Fairness == \A c \in Calls : WF_vars(Validate(c) \/ HttpAttempt(c) \/ Sleep(c)
                \/ LoopExit(c) \/ Normalize(c) \/ PersistConnect(c)
                \/ PersistUpdate(c) \/ PersistCommit(c) \/ PersistClose(c))

\* the handler against the remote endpoint of CoreStatuses and CoreBodies
NextCore ==
    \E c \in Calls :
        \/ Validate(c)
        \/ HttpAttemptCore(c)
        \/ Sleep(c)
        \/ LoopExit(c)
        \/ Normalize(c)
        \/ PersistConnect(c)
        \/ PersistUpdate(c)
        \/ PersistCommit(c)
        \/ PersistClose(c)

SpecCore == Init /\ [][NextCore]_vars

\* the handler runs to its return: no step that can be taken waits for ever
FairnessCore == \A c \in Calls : WF_vars(Validate(c) \/ HttpAttemptCore(c) \/ Sleep(c)
                \/ LoopExit(c) \/ Normalize(c) \/ PersistConnect(c)
                \/ PersistUpdate(c) \/ PersistCommit(c) \/ PersistClose(c))
FairCore == SpecCore /\ FairnessCore

\* Two calls that each got 200 on their first attempt, call 1 with the flat
\* sequence S as body and call 2 with S nested in a one-element sequence; the
\* steps are the normalisation of each.
InitNorm ==
    /\ pc = [c \in Calls |-> "after_loop"]
    /\ notes = [c \in Calls |-> NoteStr(<<"a">>)]
    /\ event_id = [c \in Calls |-> EventNone]
    /\ attempt = [c \in Calls |-> 1]
    /\ \E s \in FlatSeqs :
          out_json = [c \in Calls |-> IF c = 1 THEN JList(s) ELSE JList(<<JList(s)>>)]
    /\ last_err = [c \in Calls |-> "None"]
    /\ r = [c \in Calls |-> HttpAnswer(200, TRUE)]
    /\ resp = [c \in Calls |-> NoResp]
    /\ conn = [c \in Calls |-> "none"]
    /\ pending = [c \in Calls |-> NoUpdate]
    /\ events = [e \in EventIds |-> EmptyRow]
    /\ sent = [c \in Calls |-> 1]
    /\ sleeps = [c \in Calls |-> <<>>]

NextNorm == \E c \in Calls : Normalize(c)

SpecNorm == InitNorm /\ [][NextNorm]_vars

\* Two requests served at the same time, each with notes "a", against the
\* remote endpoint of CoreStatuses and CoreBodies.
InitPair ==
    /\ InitOf(Calls)
    /\ \A c \in Calls : notes[c] = NoteStr(<<"a">>)

SpecPair == InitPair /\ [][NextCore]_vars

TypeOK ==
    /\ pc \in [Calls -> {"off", "start", "loop", "sleep", "after_loop",
                         "persist_connect", "persist_update", "persist_commit",
                         "persist_close", "done"}]
    /\ \A c \in Calls : attempt[c] \in 0..max_attempts /\ sent[c] \in 0..max_attempts

(* ------------------------------- claims ------------------------------- *)
\* the HTTP statuses the specification calls transient, and its permanent ones
SpecTransient(status) == status = 429 \/ status \in 500..599
SpecPermanent(status) == status \in 400..499 /\ status # 429

\* a call that has returned does nothing more
Returned(c) ==
    pc[c] = "done" =>
        /\ pc'[c] = "done" /\ resp'[c] = resp[c] /\ attempt'[c] = attempt[c]
        /\ sent'[c] = sent[c] /\ sleeps'[c] = sleeps[c]
        /\ conn'[c] = conn[c] /\ pending'[c] = pending[c]

\* C1 as stated: after an attempt answered 429 or 5xx with the counter below
\* the maximum, the call has not ended (it sleeps or is about to attempt again).
C1_Original ==
    \A c \in Calls :
        (r[c].kind = "http" /\ SpecTransient(r[c].status) /\ attempt[c] < max_attempts)
            => pc[c] \in {"sleep", "loop"}

\* C1 amended: an attempt answered 503 with the counter below the maximum does
\* not end the call, and the call's next steps are the sleep and then a further
\* HTTP attempt; an attempt answered 429 or another 5xx ends the call at once
\* with 502 and reason hf_http_<status>.
C1_Amended ==
    [][\A c \in Calls :
        /\ (r'[c].kind = "http" /\ r'[c].status = 503 /\ attempt'[c] < max_attempts)
              => /\ pc'[c] \in {"sleep", "loop"}
                 /\ resp'[c] = NoResp
        /\ (pc[c] = "sleep" /\ pc'[c] # "sleep") => pc'[c] = "loop"
        /\ (pc[c] = "loop" /\ attempt[c] < max_attempts /\ pc'[c] # "loop")
              => sent'[c] = sent[c] + 1
        /\ (r'[c].kind = "http" /\ SpecTransient(r'[c].status) /\ r'[c].status # 503)
              => /\ pc'[c] = "done"
                 /\ resp'[c].status = 502
                 /\ resp'[c].reason = "hf_http"
                 /\ resp'[c].code = r'[c].status
      ]_vars

\* a call that succeeded on its second attempt, after a 503 on the first
C1_Witness ==
    \E c \in Calls :
        /\ pc[c] = "done" /\ resp[c].status = 200
        /\ last_err[c] = "503" /\ sent[c] = 2

\* C2: no call makes more than max_attempts HTTP attempts; a call that has
\* ended with its last attempt failing by a network error or a 503 (so that
\* every attempt failed that way) made exactly max_attempts attempts, answers
\* 503 "unavailable" and gives the failure of that last attempt as the reason.
C2_Exhausted ==
    \A c \in Calls :
        /\ sent[c] <= max_attempts
        /\ (pc[c] = "done" /\ (r[c].kind = "net" \/ (r[c].kind = "http" /\ r[c].status = 503)))
              => /\ sent[c] = max_attempts
                 /\ resp[c].status = 503
                 /\ resp[c].kind = "unavailable"
                 /\ resp[c].reason = "hf_unavailable"
                 /\ resp[c].err = (IF r[c].kind = "net" THEN "net" ELSE "503")

\* a call that ran out of attempts on a network error
C2_Witness ==
    \E c \in Calls :
        /\ pc[c] = "done" /\ resp[c].status = 503 /\ sent[c] = max_attempts
        /\ r[c].kind = "net" /\ resp[c].err = "net"

\* C3: an attempt answered with a 4xx other than 429 ends the call at once:
\* the call has returned 502 with reason hf_http_<status>, the counter equals
\* the number of attempts made, every sleep taken came before this attempt,
\* and nothing follows: no attempt, no sleep, no change of the counter.
C3_Permanent ==
    [][\A c \in Calls :
        /\ (r'[c].kind = "http" /\ SpecPermanent(r'[c].status))
              => /\ pc'[c] = "done"
                 /\ resp'[c].status = 502
                 /\ resp'[c].kind = "unavailable"
                 /\ resp'[c].reason = "hf_http"
                 /\ resp'[c].code = r'[c].status
                 /\ attempt'[c] = sent'[c]
                 /\ Len(sleeps'[c]) = sent'[c] - 1
        /\ Returned(c)
      ]_vars

\* a 404 on the first attempt, and the counter is 1
C3_Witness ==
    \E c \in Calls :
        /\ pc[c] = "done" /\ r[c].kind = "http" /\ r[c].status = 404
        /\ attempt[c] = 1 /\ sent[c] = 1 /\ sleeps[c] = <<>>
        /\ resp[c].code = 404

\* C4 as stated: a sleep is taken only after a failed attempt k < max_attempts,
\* it lasts min(baseDelay * k, capDelay), and none follows attempt max_attempts.
C4_Claim ==
    \A c \in Calls :
        /\ pc[c] = "sleep" => attempt[c] < max_attempts
        /\ Len(sleeps[c]) <= max_attempts - 1
        /\ \A k \in 1..Len(sleeps[c]) :
              sleeps[c][k] = (IF BackoffBase * k <= BackoffCap THEN BackoffBase * k ELSE BackoffCap)

\* C5: a successful call reports as attempts the number of HTTP attempts it
\* made: one more than the failed attempts (each followed by its sleep) that
\* came before the success, and between 1 and max_attempts.
C5_Attempts ==
    \A c \in Calls :
        resp[c].kind = "result"
            => /\ resp[c].attempts = sent[c]
               /\ resp[c].attempts = Len(sleeps[c]) + 1
               /\ resp[c].attempts >= 1
               /\ resp[c].attempts <= max_attempts

\* success on the third attempt after a 503 or a network error twice
C5_Witness ==
    \E c \in Calls :
        /\ pc[c] = "done" /\ resp[c].kind = "result"
        /\ resp[c].attempts = 3 /\ sent[c] = 3 /\ Len(sleeps[c]) = 2

\* a notes value with no text: absent, null, or a string of spaces only
IsBlank(v) ==
    \/ v.k \in {"absent", "null"}
    \/ v.k = "str" /\ \A i \in 1..Len(v.s) : v.s[i] = " "

\* C6: a call whose notes are absent, empty or blank returns 400 "notes
\* required" as its first step, having made no HTTP attempt, taken no sleep
\* and opened no storage connection, and does nothing after that.
C6_InvalidInput ==
    [][\A c \in Calls :
        /\ (pc[c] = "start" /\ IsBlank(notes[c]) /\ pc'[c] # "start")
              => /\ pc'[c] = "done"
                 /\ resp'[c].status = 400
                 /\ resp'[c].reason = "notes required"
                 /\ sent'[c] = 0
                 /\ sleeps'[c] = <<>>
                 /\ conn'[c] = "none"
                 /\ pending'[c] = NoUpdate
                 /\ events' = events
        /\ Returned(c)
      ]_vars

\* a call refused for its notes, with nothing sent
C6_Witness ==
    \E c \in Calls :
        /\ pc[c] = "done" /\ resp[c] = RespNotesRequired
        /\ notes[c].s = <<>> /\ sent[c] = 0 /\ sleeps[c] = <<>> /\ conn[c] = "none"

PersistSteps == {"persist_connect", "persist_update", "persist_commit", "persist_close"}

\* C7: while the result is being stored and after it, the answer is the full
\* result with status 200; when the connect, the update or the commit fails,
\* the call returns that same result with only the warning added.
C7_PersistWarning ==
    [][\A c \in Calls :
        /\ (pc'[c] \in PersistSteps \/ resp'[c].warning)
              => /\ resp'[c].status = 200
                 /\ resp'[c].kind = "result"
                 /\ resp'[c].scores # <<>>
                 /\ resp'[c].label = resp'[c].scores[1].label
                 /\ resp'[c].attempts = sent'[c]
        /\ (pc[c] \in {"persist_connect", "persist_update", "persist_commit"}
              /\ pc'[c] = "done")
              => resp'[c] = [resp[c] EXCEPT !.warning = TRUE]
        /\ (pc[c] \in PersistSteps /\ pc'[c] # pc[c])
              => (pc'[c] \in PersistSteps \/ pc'[c] = "done")
      ]_vars

\* the commit failed on an open connection, the result is returned with 200
C7_Witness ==
    \E c \in Calls :
        /\ pc[c] = "done" /\ resp[c].warning /\ conn[c] = "open" /\ pending[c].set
        /\ resp[c].status = 200 /\ resp[c].kind = "result"

\* the calls whose parsed body went through the normaliser
Normalized(c) ==
    /\ pc[c] \in PersistSteps \cup {"done"}
    /\ out_json[c] # JNull

\* the value the normaliser works on: the first element when the body is a
\* sequence that starts with a sequence, else the body
Unwrapped(j) ==
    IF j.t = "list" /\ Len(j.items) > 0 /\ j.items[1].t = "list" THEN j.items[1] ELSE j

\* the entries with a label member / that are no JSON object or sequence
LabelledAt(seq) == { i \in 1..Len(seq.items) : seq.items[i].t = "obj" /\ seq.items[i].lk # "absent" }
ScalarAt(seq) == { i \in 1..Len(seq.items) : seq.items[i].t \notin {"obj", "list"} }
\* the labelled entries whose score is missing, null or a string that is no number
BadScoreAt(seq) ==
    { i \in LabelledAt(seq) :
        \/ seq.items[i].sk \in {"absent", "null"}
        \/ seq.items[i].sk = "str" /\ seq.items[i].ss \notin NumericStrings }

C9_Claim ==
    \A c \in Calls :
        Normalized(c) =>
            LET seq == Unwrapped(out_json[c])
            IN  (seq.t = "list" /\ ScalarAt(seq) = {} /\ BadScoreAt(seq) # {})
                  => /\ resp[c].kind = "result"
                     /\ Len(resp[c].scores) = Cardinality(LabelledAt(seq))
                     /\ \A i \in BadScoreAt(seq) :
                          \E j \in 1..Len(resp[c].scores) :
                              /\ resp[c].scores[j].label.v = seq.items[i].lv
                              /\ resp[c].scores[j].score = 0

\* the scores of s equal to v, in order
WithScore(s, v) == LET Same(x) == x.score = v IN SelectSeq(s, Same)

C11_NonEmpty ==
    \A c \in Calls :
        /\ resp[c].kind = "result" => Len(resp[c].scores) >= 1
        /\ resp[c].status = 200 => resp[c].kind = "result"

\* a result of one label from a raw sequence of two entries, one without label
C11_Witness ==
    \E c \in Calls :
        /\ pc[c] = "done" /\ resp[c].status = 200
        /\ Len(resp[c].scores) = 1
        /\ Len(Unwrapped(out_json[c]).items) = 2

\* the order of the storage steps of a call
PersistRank(p) ==
    CASE p = "persist_connect" -> 1
      [] p = "persist_update" -> 2
      [] p = "persist_commit" -> 3
      [] p = "persist_close" -> 4
      [] p = "done" -> 5
      [] OTHER -> 0

\* C13: a call opens storage only after its loop has ended, with a result and
\* a non-empty event_id: before that, and on every failure answer, it has no
\* connection and no update.  The storage steps run in order, each at most
\* once, never back into the loop, with no HTTP attempt and no sleep while the
\* connection is held; table events changes only by the commit of a call's
\* one update.
C13_PersistOnce ==
    [][(\A c \in Calls :
        /\ (conn'[c] # "none" \/ pending'[c].set \/ pc'[c] \in PersistSteps)
              => /\ pc'[c] \in PersistSteps \cup {"done"}
                 /\ event_id'[c].k = "str" /\ event_id'[c].s # ""
                 /\ resp'[c].kind = "result"
        /\ pc'[c] \in {"start", "loop", "sleep", "after_loop"}
              => conn'[c] = "none" /\ ~pending'[c].set
        /\ (pc[c] \in PersistSteps /\ pc'[c] # pc[c])
              => /\ PersistRank(pc'[c]) > PersistRank(pc[c])
                 /\ sent'[c] = sent[c] /\ sleeps'[c] = sleeps[c]
        /\ (pending'[c] # pending[c] /\ pending'[c].set)
              => pc[c] = "persist_update" /\ ~pending[c].set /\ conn[c] = "open"
        /\ Returned(c))
       /\ (events' # events =>
              \E c \in Calls : /\ pc[c] = "persist_commit" /\ pc'[c] = "persist_close"
                               /\ pending[c].set /\ pending[c].id = event_id[c].s)
    ]_vars

\* the result of a call stored on row e1 and the connection closed
C13_Witness ==
    \E c \in Calls :
        /\ pc[c] = "done" /\ conn[c] = "closed" /\ ~resp[c].warning
        /\ events["e1"].ai_emotion = resp[c].label
        /\ events["e1"].ai_emotion_scores = resp[c].scores
        /\ resp[c].kind = "result" /\ sent[c] >= 2

\* C15 as stated: a result comes only from an attempt answered 2xx with a body
\* that parses; the body of no other attempt reaches the normaliser.
C15_Original ==
    \A c \in Calls :
        (resp[c].kind = "result" \/ out_json[c] # JNull)
            => r[c].kind = "http" /\ r[c].status \in 200..299 /\ r[c].parses

\* C15 amended: a body reaches the normaliser, and a result can follow, only
\* from an attempt answered with a status below 400 (1xx, 2xx or 3xx) whose
\* body parses; an attempt answered 4xx or 5xx, or not answered, never leads
\* to a result.
C15_Amended ==
    \A c \in Calls :
        /\ (resp[c].kind = "result" \/ out_json[c] # JNull)
              => r[c].kind = "http" /\ r[c].status < 400 /\ r[c].parses
        /\ (r[c].kind = "net" \/ (r[c].kind = "http" /\ r[c].status >= 400))
              => resp[c].kind # "result" /\ resp[c].status # 200

\* a result from an attempt answered 302
C15_Witness ==
    \E c \in Calls :
        /\ pc[c] = "done" /\ resp[c].kind = "result" /\ resp[c].status = 200
        /\ r[c].kind = "http" /\ r[c].status = 302

\* C16 as stated: an entry without a usable label (no label member, or a
\* label that is null) is left out and does not abort the call, so a body
\* whose entries are all objects is answered, and every label of a result,
\* the top label included, is a string.
C16_Claim ==
    \A c \in Calls :
        /\ resp[c].kind = "result"
              => /\ resp[c].label.k = "str"
                 /\ \A j \in 1..Len(resp[c].scores) : resp[c].scores[j].label.k = "str"
        /\ Normalized(c) =>
              LET seq == Unwrapped(out_json[c])
              IN  (seq.t = "list" /\ ScalarAt(seq) = {} /\ BadScoreAt(seq) \subseteq
                        { i \in LabelledAt(seq) : seq.items[i].sk = "absent" })
                     => resp[c].kind # "exception"

\* C17 as stated: when a call has returned, its storage connection is not open.
C17_Claim ==
    \A c \in Calls : pc[c] = "done" => conn[c] # "open"

\* C19: an attempt answered with a status below 400 ends the loop: the next
\* step of the call is the code after the loop and no further request is sent.
\* When its body did not parse, or parsed to null, the call answers 503
\* hf_unavailable, with the counter at the number of requests sent, which may
\* be below max_attempts, and with no sleep after that attempt.
C19_BreakOnSuccessStatus ==
    [][\A c \in Calls :
        /\ (sent'[c] # sent[c] /\ r'[c].kind = "http" /\ r'[c].status < 400)
              => pc'[c] = "after_loop"
        /\ (pc[c] = "after_loop" /\ pc'[c] # "after_loop")
              => /\ pc'[c] \in {"done", "persist_connect"}
                 /\ sent'[c] = sent[c] /\ sleeps'[c] = sleeps[c]
        /\ (pc'[c] = "done" /\ r'[c].kind = "http" /\ r'[c].status < 400
              /\ (~r'[c].parses \/ out_json'[c] = JNull))
              => /\ resp'[c].status = 503
                 /\ resp'[c].kind = "unavailable"
                 /\ resp'[c].reason = "hf_unavailable"
                 /\ resp'[c].err = last_err'[c]
                 /\ (~r'[c].parses => last_err'[c] = "json")
                 /\ attempt'[c] = sent'[c]
                 /\ Len(sleeps'[c]) = sent'[c] - 1
        /\ Returned(c)
      ]_vars

\* 200 with a body that does not parse on the second attempt: 503 at once
C19_Witness ==
    \E c \in Calls :
        /\ pc[c] = "done" /\ resp[c].status = 503 /\ resp[c].err = "json"
        /\ r[c].kind = "http" /\ r[c].status = 200 /\ ~r[c].parses
        /\ attempt[c] = 2 /\ sent[c] = 2

\* C18: a call that runs on returns an answer, whatever the outcomes of its
\* attempts; it never sends more than max_attempts requests, its answer is one
\* answer with a status, and after it the call sends, sleeps and changes
\* nothing.
C18_Terminates ==
    /\ \A c \in Calls : (pc[c] = "start") ~> (pc[c] = "done")
    /\ [][\A c \in Calls :
            /\ sent'[c] <= max_attempts
            /\ (pc'[c] = "done") <=> (resp'[c].status \in {200, 400, 500, 502, 503}
                                       /\ pc'[c] \notin PersistSteps)
            /\ Returned(c)
         ]_vars

\* a call that has returned after all max_attempts requests
C18_Witness ==
    \E c \in Calls :
        /\ pc[c] = "done" /\ sent[c] = max_attempts /\ resp[c].kind = "result"

\* what a call answers, but for the count of attempts and the storage warning
Outcome(c) ==
    <<resp[c].status, resp[c].kind, resp[c].reason, resp[c].label, resp[c].score,
      resp[c].scores>>

\* C12: for every sequence S, the call whose body is the nested [S] answers
\* what the call whose body is the flat S answers: the same result with the
\* same ordered scores, or the same failure.
C12_NestedSameAsFlat ==
    (/\ pc[1] = "done" /\ pc[2] = "done"
     /\ out_json[1].t = "list"
     /\ out_json[2] = JList(<<out_json[1]>>))
        => Outcome(1) = Outcome(2)

\* S of two labelled entries, flat and nested, both answered with its two scores
C12_Witness ==
    /\ pc[1] = "done" /\ pc[2] = "done"
    /\ out_json[2] = JList(<<out_json[1]>>)
    /\ Len(out_json[1].items) = 2
    /\ resp[2].kind = "result" /\ Len(resp[2].scores) = 2
    /\ resp[2].scores[1].score > resp[2].scores[2].score

\* everything a call holds: its locals, its answer, its connection and update,
\* and the requests and sleeps it caused
Locals(c) ==
    <<pc[c], notes[c], event_id[c], attempt[c], out_json[c], last_err[c], r[c],
      resp[c], conn[c], pending[c], sent[c], sleeps[c]>>

\* C14: with two calls running at the same time, under every interleaving of
\* their steps, a step changes what one call holds and nothing of the other:
\* a call's counter, last failure, position and answer change only by its own
\* steps, the counter and the last failure only by its own request, and the
\* counter always equals the requests the call itself has sent.
C14_Independent ==
    [][\A c \in Calls :
        /\ \A d \in Calls \ {c} : Locals(c)' # Locals(c) => Locals(d)' = Locals(d)
        /\ attempt'[c] # attempt[c]
              => attempt'[c] = attempt[c] + 1 /\ sent'[c] = sent[c] + 1
        /\ last_err'[c] # last_err[c]
              => /\ sent'[c] = sent[c] + 1
                 /\ last_err'[c] = (IF r'[c].kind = "net" THEN "net"
                                    ELSE IF r'[c].status = 503 THEN "503" ELSE "json")
        /\ resp'[c] # resp[c] => pc'[c] # pc[c]
        /\ attempt'[c] = sent'[c]
        /\ Returned(c)
      ]_vars

\* both calls under way: call 1 sleeps after a network error on its second
\* attempt while call 2, after two 503, commits its result
C14_Witness ==
    /\ pc[1] = "sleep" /\ attempt[1] = 2 /\ last_err[1] = "net"
    /\ pc[2] = "persist_commit" /\ attempt[2] = 3 /\ last_err[2] = "503"
    /\ resp[2].kind = "result" /\ resp[1] = NoResp

====
